---------------------------- MODULE Spec2Model ----------------------------
(***************************************************************************)
(* Division-Wise-File-Creator: the division-splitting engine               *)
(* (process_excel_file, identical in src/app.py and src/main.py) and the   *)
(* upload handlers of the synchronous (Flask, src/app.py) and the          *)
(* asynchronous (FastAPI, src/main.py) service.                            *)
(*                                                                         *)
(* Text is modelled as a sequence of one-character strings, so that        *)
(* strip(), title(), the character filter, rstrip() and replace() are      *)
(* computed character by character as Python computes them.                *)
(***************************************************************************)
EXTENDS Integers, Sequences, FiniteSets, TLC

(***************************************************************************)
(* Bounds of the model.                                                    *)
(***************************************************************************)
\* longest raw division text drawn in SpecName
MaxLen == 3
\* most data rows of a dataset drawn in SpecEngine
MaxRows == 3

(***************************************************************************)
(* Characters and the str methods the engine uses.                         *)
(***************************************************************************)
Lowers == <<"a","b","c","d","e","f","g","h","i","j","k","l","m",
            "n","o","p","q","r","s","t","u","v","w","x","y","z">>
Uppers == <<"A","B","C","D","E","F","G","H","I","J","K","L","M",
            "N","O","P","Q","R","S","T","U","V","W","X","Y","Z">>
Digits == {"0","1","2","3","4","5","6","7","8","9"}
Whitespace == {" ", "\t", "\n"}

Range(f) == {f[i] : i \in DOMAIN f}

LowerSet == Range(Lowers)
UpperSet == Range(Uppers)
IsLower(c) == c \in LowerSet
IsUpper(c) == c \in UpperSet
IsCased(c) == IsLower(c) \/ IsUpper(c)
\* str.isalnum() of one character
IsAlnum(c) == IsCased(c) \/ c \in Digits

IndexIn(seq, c) == CHOOSE i \in DOMAIN seq : seq[i] = c
ToLower(c) == IF IsUpper(c) THEN Lowers[IndexIn(Uppers, c)] ELSE c
ToUpper(c) == IF IsLower(c) THEN Uppers[IndexIn(Lowers, c)] ELSE c

\* str.lower()
Lower(s) == [i \in 1..Len(s) |-> ToLower(s[i])]

\* str.title(): a cased character is upper-cased when the character before
\* it is not cased, lower-cased otherwise; other characters are kept.
Title(s) ==
    [i \in 1..Len(s) |->
        IF ~IsCased(s[i]) THEN s[i]
        ELSE IF i > 1 /\ IsCased(s[i-1]) THEN ToLower(s[i])
        ELSE ToUpper(s[i])]

\* number of leading / trailing whitespace characters
RECURSIVE LeadWs(_)
LeadWs(s) == IF s # <<>> /\ Head(s) \in Whitespace THEN 1 + LeadWs(Tail(s)) ELSE 0
RECURSIVE TrailWs(_)
TrailWs(s) ==
    IF s # <<>> /\ s[Len(s)] \in Whitespace
    THEN 1 + TrailWs(SubSeq(s, 1, Len(s) - 1)) ELSE 0

\* str.rstrip() and str.strip()
RStrip(s) == SubSeq(s, 1, Len(s) - TrailWs(s))
Strip(s) == LET t == RStrip(s) IN SubSeq(t, LeadWs(t) + 1, Len(t))

\* str.replace(a, b) for single characters
Replace(s, a, b) == [i \in 1..Len(s) |-> IF s[i] = a THEN b ELSE s[i]]

\* the literal texts of the engine
NanText == <<"n","a","n">>
DivisionText == <<"d","i","v","i","s","i","o","n">>
DivSuffix == <<"_","D","i","v",".","x","l","s","x">>

(***************************************************************************)
(* The file-name derivation of process_excel_file.                          *)
(***************************************************************************)
KeepChar(c) == IsAlnum(c) \/ c \in {" ", "-", "_"}

\* a derivation that replaces the spaces before it strips the tail
safe_division_name_ReplaceFirst(division) ==
    RStrip(Replace(SelectSeq(division, KeepChar), " ", "_"))

\* "".join(c for c in division if c.isalnum() or c in (' ','-','_')).rstrip()
\*    .replace(' ', '_')
safe_division_name(division) ==
    Replace(RStrip(SelectSeq(division, KeepChar)), " ", "_")

\* f"{safe_division_name}_Div.xlsx"
DivFileName(division) == safe_division_name(division) \o DivSuffix

\* astype(str).str.strip().str.title() of one cell; an absent cell (NaN)
\* becomes the text "nan" under astype(str)
NaN == [na |-> TRUE, s |-> <<>>]
Txt(s) == [na |-> FALSE, s |-> s]
AsStr(cell) == IF cell.na THEN NanText ELSE cell.s
Normalize(cell) == Title(Strip(AsStr(cell)))

(***************************************************************************)
(* Values the engine works on.                                             *)
(*   column label : [text, s]  - read_excel keeps a header cell's type, so *)
(*                   a label is text or not (a number such as 2021, whose  *)
(*                   s is its printed form)                                *)
(*   cell         : [na, s]    - NaN or text                               *)
(*   file content : [kind, columns, rows], kind "sheet", "garbage" (bytes  *)
(*                   read_excel cannot parse) or "missing" (no file at the *)
(*                   path)                                                 *)
(*   division_col : [none, s]  - None or a column name                     *)
(***************************************************************************)
Label(s) == [text |-> TRUE, s |-> s]
NumLabel(s) == [text |-> FALSE, s |-> s]
None == [none |-> TRUE, s |-> <<>>]
Col(s) == [none |-> FALSE, s |-> s]
Sheet(columns, rows) == [kind |-> "sheet", columns |-> columns, rows |-> rows]
Garbage == [kind |-> "garbage", columns |-> <<>>, rows |-> <<>>]
NoFile == [kind |-> "missing", columns |-> <<>>, rows |-> <<>>]

\* a match that forgets to trim the label
IsDivisionLabel_NoStrip(col) == Lower(col.s) = DivisionText

\* col.lower().strip() == 'division'
IsDivisionLabel(col) == Strip(Lower(col.s)) = DivisionText

\* The auto-detection loop: the position of the first column the loop stops
\* at, either because its label matches or because col.lower() raises on a
\* label that is not text; 0 when the loop runs to its end.
AutoDetectStop(columns) ==
    LET stops == {i \in DOMAIN columns :
                     ~columns[i].text \/ IsDivisionLabel(columns[i])}
    IN IF stops = {} THEN 0
       ELSE CHOOSE i \in stops : \A j \in stops : i <= j

\* position of the text column named name, 0 when there is none
\* (division_col not in df.columns)
ColumnIndex(columns, name) ==
    LET hits == {i \in DOMAIN columns : columns[i].text /\ columns[i].s = name}
    IN IF hits = {} THEN 0 ELSE CHOOSE i \in hits : \A j \in hits : i <= j

\* Series.unique(): the distinct values in order of first appearance
RECURSIVE Unique(_)
Unique(s) ==
    IF s = <<>> THEN <<>>
    ELSE LET init == SubSeq(s, 1, Len(s) - 1)
             u == Unique(init)
         IN IF s[Len(s)] \in Range(u) THEN u ELSE Append(u, s[Len(s)])

\* a filter that compares without lower-casing
KeepDivision_CaseSensitive(div) == div # NanText

\* [div for div in unique_divisions if not pd.isna(div) and div.lower() != 'nan']
KeepDivision(div) == Lower(div) # NanText
unique_divisions(normalized) == SelectSeq(Unique(normalized), KeepDivision)

\* df[df[division_col] == division]: the rows of one division, the division
\* column holding the normalized text
division_data(rows, k, division) ==
    LET norm(r) == [r EXCEPT ![k] = Txt(Normalize(r[k]))]
        hit(r) == Normalize(r[k]) = division
    IN [i \in 1..Len(SelectSeq(rows, hit)) |-> norm(SelectSeq(rows, hit)[i])]

\* The temporary workspace after the loop: to_excel writes each division's
\* rows at temp_dir/filename, a later division with the same file name
\* overwriting an earlier one.
WorkspaceFiles(rows, k, divisions) ==
    LET names == {DivFileName(divisions[i]) : i \in DOMAIN divisions}
        last(n) == CHOOSE i \in DOMAIN divisions :
                      /\ DivFileName(divisions[i]) = n
                      /\ \A j \in DOMAIN divisions :
                            DivFileName(divisions[j]) = n => j <= i
    IN [n \in names |-> division_data(rows, k, divisions[last(n)])]

\* results of process_excel_file
Failure(kind, columns) ==
    [kind |-> kind, created_files |-> <<>>, columns |-> columns,
     workspace |-> <<>>, has_workspace |-> FALSE, division_col |-> 0]

SplitOn(rows, k) ==
    LET normalized == [i \in 1..Len(rows) |-> Normalize(rows[i][k])]
        divisions == unique_divisions(normalized)
    IN [kind |-> "ok",
        created_files |->
            [i \in 1..Len(divisions) |->
                [filename |-> DivFileName(divisions[i]),
                 row_count |-> Len(division_data(rows, k, divisions[i])),
                 division |-> divisions[i]]],
        columns |-> <<>>,
        workspace |-> WorkspaceFiles(rows, k, divisions),
        has_workspace |-> TRUE,
        division_col |-> k]

\* process_excel_file(filepath, division_col), content being what is at
\* filepath when read_excel opens it.  Every exception inside it is caught
\* and reported as "Error processing file: ..." (ProcessingFailure).
process_excel_file(content, division_col) ==
    IF content.kind # "sheet" THEN Failure("ProcessingFailure", <<>>)
    ELSE LET columns == content.columns
             stop == AutoDetectStop(columns)
         IN IF division_col.none /\ stop # 0 /\ ~columns[stop].text
            THEN Failure("ProcessingFailure", <<>>)
            ELSE LET k == IF division_col.none THEN stop
                          ELSE ColumnIndex(columns, division_col.s)
                 IN IF k = 0 THEN Failure("MissingData", columns)
                    ELSE SplitOn(content.rows, k)

(***************************************************************************)
(* State.                                                                  *)
(***************************************************************************)
VARIABLES
    \* the running service and its requests (Spec)
    service,    \* "sync" (src/app.py) or "async" (src/main.py)
    req,        \* req[r]: the multipart upload request r carries
    pc,         \* pc[r]: where request r's handler stands
    loop,       \* async: the request running on the event loop, 0 if none
    uploads,    \* the upload directory: sanitized name -> [owner, content]
    outputs,    \* the output directory: archive name -> sequence of slots
    temp,       \* temp[r]: the workspace mkdtemp() made for r, file name -> rows
    result,     \* result[r]: what process_excel_file returned to r
    df,         \* df[r]: the content read_excel read for r
    zpos,       \* zpos[r]: r's ZipFile handle position, in slots
    response,   \* response[r]: what r's handler answered
    \* one call of process_excel_file (SpecEngine)
    e_file, e_col, e_out,
    \* one file-name derivation (SpecName)
    n_raw, n_key, n_name

vars == <<service, req, pc, loop, uploads, outputs, temp, result, df, zpos,
          response, e_file, e_col, e_out, n_raw, n_key, n_name>>
svars == <<service, req, pc, loop, uploads, outputs, temp, result, df, zpos,
           response>>
evars == <<e_file, e_col, e_out>>
nvars == <<n_raw, n_key, n_name>>

NotRun == [kind |-> "none", created_files |-> <<>>, columns |-> <<>>,
           workspace |-> <<>>, has_workspace |-> FALSE, division_col |-> 0]
NoText == <<"?">>

\* no call of the engine in progress
EngineIdle == e_file = NoFile /\ e_col = None /\ e_out = NotRun
NameIdle == n_raw = NoText /\ n_key = NoText /\ n_name = NoText

(***************************************************************************)
(* SpecName: the file name of one division value.                          *)
(***************************************************************************)
NameAlphabet == {"a", "B", "1", " ", "-", "_", "&", "."}

RECURSIVE TextsUpTo(_)
TextsUpTo(n) ==
    IF n = 0 THEN {<<>>}
    ELSE LET shorter == TextsUpTo(n - 1)
         IN shorter \cup {Append(s, c) : s \in shorter, c \in NameAlphabet}

\* the two division values given as examples of the derivation
RnDEast == <<"R","&","D"," ","E","a","s","t">>
UpSpaced == <<"U","p"," ","-"," ","1">>
NameExamples == {RnDEast, UpSpaced}

ServiceIdle ==
    /\ service = "sync"
    /\ req = <<>> /\ pc = <<>> /\ loop = 0
    /\ uploads = <<>> /\ outputs = <<>> /\ temp = <<>>
    /\ result = <<>> /\ df = <<>> /\ zpos = <<>> /\ response = <<>>

NameInit ==
    /\ ServiceIdle /\ EngineIdle
    /\ n_raw \in TextsUpTo(MaxLen) \cup NameExamples
    /\ n_key = NoText /\ n_name = NoText

\* df[division_col].astype(str).str.strip().str.title() on the cell
NormalizeKey ==
    /\ n_key = NoText
    /\ n_key' = Normalize(Txt(n_raw))
    /\ UNCHANGED <<n_raw, n_name>>
    /\ UNCHANGED svars /\ UNCHANGED evars

\* the file name of a key that passed the "nan" filter
MakeName ==
    /\ n_key # NoText /\ n_name = NoText
    /\ KeepDivision(n_key)
    /\ n_name' = DivFileName(n_key)
    /\ UNCHANGED <<n_raw, n_key>>
    /\ UNCHANGED svars /\ UNCHANGED evars

NameNext == NormalizeKey \/ MakeName
SpecName == NameInit /\ [][NameNext]_vars

(***************************************************************************)
(* SpecEngine: one call of process_excel_file on a drawn dataset.          *)
(***************************************************************************)
UP1 == <<"U","P","-","1">>
up1 == <<"u","p","-","1">>
Up1Trail == <<"U","p","-","1"," ">>
NANUpper == <<"N","A","N">>
RnD == <<"R","&","D">>
RDotD == <<"R",".","D">>
Blank == <<" "," ">>

\* the division cells a drawn dataset may hold
DivCells == {NaN, Txt(UP1), Txt(up1), Txt(Up1Trail), Txt(NANUpper),
             Txt(RnD), Txt(RDotD), Txt(Blank)}

DivisionCap == <<"D","i","v","i","s","i","o","n">>
DivisionPadded == <<" ","D","I","V","I","S","I","O","N"," ">>
Region == <<"R","e","g","i","o","n">>
Nope == <<"N","o","p","e">>
Year == <<"2","0","2","1">>

\* the header rows a drawn dataset may have (read_excel keeps labels unique)
Layouts == {<<Label(DivisionCap), Label(Region)>>,
            <<Label(Region), Label(DivisionPadded)>>,
            <<Label(DivisionText), Label(DivisionCap)>>,
            <<Label(Region), Label(Nope)>>,
            <<NumLabel(Year), Label(DivisionText)>>,
            <<Label(Region), NumLabel(Year)>>}

Overrides == {None, Col(Region), Col(Nope)}

\* Row i of a two-column dataset: both columns hold drawn division cells,
\* the second column those of the first in reverse order.
RowsOf(cells) ==
    [i \in 1..Len(cells) |-> <<cells[i], cells[Len(cells) + 1 - i]>>]

EngineInit ==
    /\ ServiceIdle /\ NameIdle
    /\ \/ e_file = Garbage
       \/ \E n \in 0..MaxRows : \E cells \in [1..n -> DivCells] :
             \E l \in Layouts : e_file = Sheet(l, RowsOf(cells))
    /\ e_col \in Overrides
    /\ e_out = NotRun

RunEngine ==
    /\ e_out = NotRun
    /\ e_out' = process_excel_file(e_file, e_col)
    /\ UNCHANGED <<e_file, e_col>>
    /\ UNCHANGED svars /\ UNCHANGED nvars

EngineNext == RunEngine
SpecEngine == EngineInit /\ [][EngineNext]_vars

(***************************************************************************)
(* The upload handlers.                                                    *)
(***************************************************************************)
\* requests the service handles concurrently
NumRequests == 2
Requests == 1..NumRequests

MAX_FILE_SIZE == 16 * 1024 * 1024
MAX_CONTENT_LENGTH == 16 * 1024 * 1024
\* bytes a multipart body holds besides the file's own (at least one)
MultipartOverhead == 1

XlsxExt == <<"x","l","s","x">>
XlsExt == <<"x","l","s">>
ALLOWED_EXTENSIONS == {XlsxExt, XlsExt}

\* position of the last '.' of s, 0 when it has none
LastDot(s) ==
    LET dots == {i \in DOMAIN s : s[i] = "."}
    IN IF dots = {} THEN 0 ELSE CHOOSE i \in dots : \A j \in dots : j <= i

\* '.' in filename and filename.rsplit('.', 1)[1].lower() in ALLOWED_EXTENSIONS
allowed_file(filename) ==
    /\ LastDot(filename) # 0
    /\ Lower(SubSeq(filename, LastDot(filename) + 1, Len(filename)))
          \in ALLOWED_EXTENSIONS

\* filename.rsplit('.', 1)[0]
BaseName(filename) ==
    IF LastDot(filename) = 0 THEN filename
    ELSE SubSeq(filename, 1, LastDot(filename) - 1)

\* werkzeug's secure_filename on ASCII text: path separators become spaces,
\* "_".join(name.split()), characters outside [A-Za-z0-9_.-] are dropped,
\* then leading and trailing '.' and '_' are stripped.
RECURSIVE JoinWords(_)
JoinWords(s) ==
    IF s = <<>> THEN <<>>
    ELSE IF Head(s) \notin Whitespace THEN <<Head(s)>> \o JoinWords(Tail(s))
    ELSE IF Tail(s) # <<>> /\ Head(Tail(s)) \in Whitespace THEN JoinWords(Tail(s))
    ELSE <<"_">> \o JoinWords(Tail(s))
SafeChar(c) == IsAlnum(c) \/ c \in {"_", ".", "-"}
RECURSIVE StripDots(_)
StripDots(s) ==
    IF s # <<>> /\ Head(s) \in {".", "_"} THEN StripDots(Tail(s))
    ELSE IF s # <<>> /\ s[Len(s)] \in {".", "_"}
         THEN StripDots(SubSeq(s, 1, Len(s) - 1))
         ELSE s
secure_filename(filename) ==
    StripDots(SelectSeq(JoinWords(Strip(Replace(filename, "/", " "))), SafeChar))

\* f"divisions_{filename.rsplit('.', 1)[0]}.zip"
zip_filename(filename) ==
    <<"d","i","v","i","s","i","o","n","s","_">> \o BaseName(filename)
        \o <<".","z","i","p">>

\* The division_col form field: absent, or a text.  What each handler passes
\* to process_excel_file.
NoField == [present |-> FALSE, s |-> <<>>]
Field(s) == [present |-> TRUE, s |-> s]
\* app.py: request.form.get('division_col', '').strip(), then
\* division_col if division_col else None
SyncDivisionCol(form) ==
    LET v == IF form.present THEN Strip(form.s) ELSE <<>>
    IN IF v # <<>> THEN Col(v) ELSE None
\* main.py: division_col: Optional[str] = Form(""), then
\* division_col.strip() if division_col else None
AsyncDivisionCol(form) ==
    LET v == IF form.present THEN form.s ELSE <<>>
    IN IF v # <<>> THEN Col(Strip(v)) ELSE None

(***************************************************************************)
(* The uploads a request may carry: [filename, size, content, form].       *)
(***************************************************************************)
Assam == <<"A","s","s","a","m">>
Gujarat == <<"G","u","j","a","r","a","t">>
NameCol == <<"N","a","m","e">>
East == <<"e","a","s","t">>

AssamSheet ==
    Sheet(<<Label(DivisionCap), Label(NameCol)>>,
          << <<Txt(Assam), Txt(<<"p">>)>>, <<Txt(Gujarat), Txt(<<"q">>)>>,
             <<Txt(Assam), Txt(<<"r">>)>> >>)
UpSheet ==
    Sheet(<<Label(DivisionText)>>, << <<Txt(UP1)>>, <<Txt(up1)>> >>)
RegionSheet ==
    Sheet(<<Label(Region), Label(NameCol)>>,
          << <<Txt(East), Txt(<<"p">>)>>, <<NaN, Txt(<<"q">>)>> >>)
YearSheet ==
    Sheet(<<NumLabel(Year), Label(NameCol)>>, << <<Txt(<<"7">>), Txt(<<"p">>)>> >>)

AXlsx == <<"a",".","x","l","s","x">>
DotDotAXlsx == <<".",".","/","a",".","x","l","s","x">>
BXls == <<"b",".","X","L","S">>
ACsv == <<"a",".","c","s","v">>
NoDot == <<"x","l","s","x">>

Upload(filename, size, content, form) ==
    [filename |-> filename, size |-> size, content |-> content, form |-> form]

Uploads ==
    <<Upload(AXlsx, 1, AssamSheet, Field(<<>>)),
     Upload(DotDotAXlsx, 1, UpSheet, NoField),
     Upload(BXls, MAX_FILE_SIZE, RegionSheet, NoField),
     Upload(BXls, 1, RegionSheet, Field(Region)),
     Upload(AXlsx, 1, RegionSheet, Field(<<" ">>)),
     Upload(AXlsx, 1, Garbage, NoField),
     Upload(AXlsx, 1, YearSheet, NoField),
     Upload(AXlsx, MAX_FILE_SIZE + 1, AssamSheet, NoField),
     Upload(ACsv, 1, AssamSheet, NoField),
     Upload(ACsv, MAX_FILE_SIZE + 1, RegionSheet, NoField),
     Upload(NoDot, 1, Garbage, NoField),
     Upload(<<>>, 1, AssamSheet, NoField),
     Upload(BXls, 1, AssamSheet, Field(<<" ">>))>>

(***************************************************************************)
(* Directories and archives.                                               *)
(***************************************************************************)
\* a directory (a function from names) with name set to v / without name
Put(dir, name, v) ==
    [n \in DOMAIN dir \cup {name} |-> IF n = name THEN v ELSE dir[n]]
Del(dir, name) == [n \in DOMAIN dir \ {name} |-> dir[n]]

\* An archive file is a sequence of slots: a member written by zipf.write,
\* the central directory written by close, or a hole left where a handle
\* wrote beyond the end of a file another handle had truncated.
Hole == [kind |-> "hole", owner |-> 0, name |-> <<>>, rows |-> <<>>, names |-> <<>>]
Member(r, name, rows) ==
    [kind |-> "member", owner |-> r, name |-> name, rows |-> rows, names |-> <<>>]
Directory(r, names) ==
    [kind |-> "directory", owner |-> r, name |-> <<>>, rows |-> <<>>, names |-> names]

\* a write of one slot at offset pos through a handle of its own position
WriteAt(file, pos, slot) ==
    [i \in 1..(IF Len(file) > pos + 1 THEN Len(file) ELSE pos + 1) |->
        IF i = pos + 1 THEN slot
        ELSE IF i <= Len(file) THEN file[i] ELSE Hole]

NoWorkspace == [exists |-> FALSE, files |-> <<>>]
NoResponse == [kind |-> "none", columns |-> <<>>, files |-> <<>>, zip |-> <<>>]
Answer(kind, columns, files, zip) ==
    [kind |-> kind, columns |-> columns, files |-> files, zip |-> zip]

\* the path components a request derives from its upload's name
filename(r) == secure_filename(req[r].filename)
ZipName(r) == zip_filename(filename(r))
Names(files) == [i \in 1..Len(files) |-> files[i].filename]

Init ==
    /\ EngineIdle /\ NameIdle
    /\ service \in {"sync", "async"}
    \* requests are interchangeable, so they are numbered in the order of
    \* the uploads they carry
    /\ \E idx \in [Requests -> DOMAIN Uploads] :
          /\ \A r, s \in Requests : r < s => idx[r] <= idx[s]
          /\ req = [r \in Requests |-> Uploads[idx[r]]]
    /\ pc = [r \in Requests |-> "start"]
    /\ loop = 0
    /\ uploads = <<>>
    /\ outputs = <<>>
    /\ temp = [r \in Requests |-> NoWorkspace]
    /\ result = [r \in Requests |-> NotRun]
    /\ df = [r \in Requests |-> NoFile]
    /\ zpos = [r \in Requests |-> 0]
    /\ response = [r \in Requests |-> NoResponse]

\* the thread of a synchronous request runs whenever scheduled; an
\* asynchronous handler past its await runs only while it holds the loop
Running(r) == service = "sync" \/ loop = r
Release(r) == loop' = IF loop = r THEN 0 ELSE loop
Finish(r, answer) ==
    /\ pc' = [pc EXCEPT ![r] = "done"]
    /\ response' = [response EXCEPT ![r] = answer]
    /\ Release(r)

Invalid == Answer("InvalidInput", <<>>, <<>>, <<>>)

\* app.py: the framework refuses a body beyond MAX_CONTENT_LENGTH with 413
\* when the handler first touches request.files
SyncTooLarge(r) ==
    /\ service = "sync" /\ pc[r] = "start"
    /\ req[r].size + MultipartOverhead > MAX_CONTENT_LENGTH
    /\ Finish(r, Answer("RequestEntityTooLarge", <<>>, <<>>, <<>>))
    /\ UNCHANGED <<service, req, uploads, outputs, temp, result, df, zpos>>
    /\ UNCHANGED evars /\ UNCHANGED nvars

\* app.py: 'No file selected' / 'Invalid file type'
SyncReject(r) ==
    /\ service = "sync" /\ pc[r] = "start"
    /\ req[r].size + MultipartOverhead <= MAX_CONTENT_LENGTH
    /\ req[r].filename = <<>> \/ ~allowed_file(req[r].filename)
    /\ Finish(r, Invalid)
    /\ UNCHANGED <<service, req, uploads, outputs, temp, result, df, zpos>>
    /\ UNCHANGED evars /\ UNCHANGED nvars

\* app.py: file.save(filepath)
SyncSave(r) ==
    /\ service = "sync" /\ pc[r] = "start"
    /\ req[r].size + MultipartOverhead <= MAX_CONTENT_LENGTH
    /\ req[r].filename # <<>> /\ allowed_file(req[r].filename)
    /\ uploads' = Put(uploads, filename(r), [owner |-> r, content |-> req[r].content])
    /\ pc' = [pc EXCEPT ![r] = "saved"]
    /\ UNCHANGED <<service, req, loop, outputs, temp, result, df, zpos, response>>
    /\ UNCHANGED evars /\ UNCHANGED nvars

\* main.py: "No file selected" / "Invalid file type", before the await
AsyncReject(r) ==
    /\ service = "async" /\ pc[r] = "start" /\ loop = 0
    /\ req[r].filename = <<>> \/ ~allowed_file(req[r].filename)
    /\ Finish(r, Invalid)
    /\ UNCHANGED <<service, req, uploads, outputs, temp, result, df, zpos>>
    /\ UNCHANGED evars /\ UNCHANGED nvars

\* main.py: contents = await file.read() yields to the event loop
AsyncAwaitRead(r) ==
    /\ service = "async" /\ pc[r] = "start" /\ loop = 0
    /\ req[r].filename # <<>> /\ allowed_file(req[r].filename)
    /\ pc' = [pc EXCEPT ![r] = "awaiting"]
    /\ UNCHANGED <<service, req, loop, uploads, outputs, temp, result, df, zpos,
                   response>>
    /\ UNCHANGED evars /\ UNCHANGED nvars

\* a size check that also refuses the limit itself
SizeExceeds_Inclusive(size) == size >= MAX_FILE_SIZE

\* main.py: len(contents) > MAX_FILE_SIZE
SizeExceeds(size) == size > MAX_FILE_SIZE

\* main.py: "File size exceeds 16MB limit."
AsyncTooLarge(r) ==
    /\ service = "async" /\ pc[r] = "awaiting" /\ loop = 0
    /\ SizeExceeds(req[r].size)
    /\ Finish(r, Invalid)
    /\ UNCHANGED <<service, req, uploads, outputs, temp, result, df, zpos>>
    /\ UNCHANGED evars /\ UNCHANGED nvars

\* main.py: with open(filepath, "wb") as f: f.write(contents); from here to
\* its return the handler never awaits, so it keeps the loop
AsyncSave(r) ==
    /\ service = "async" /\ pc[r] = "awaiting" /\ loop = 0
    /\ ~SizeExceeds(req[r].size)
    /\ uploads' = Put(uploads, filename(r), [owner |-> r, content |-> req[r].content])
    /\ pc' = [pc EXCEPT ![r] = "saved"]
    /\ loop' = r
    /\ UNCHANGED <<service, req, outputs, temp, result, df, zpos, response>>
    /\ UNCHANGED evars /\ UNCHANGED nvars

\* the column choice the handler passes to the engine
DivisionColOf(r) ==
    IF service = "sync" THEN SyncDivisionCol(req[r].form)
    ELSE AsyncDivisionCol(req[r].form)

\* what read_excel finds at the request's upload path
ReadUpload(r) ==
    IF filename(r) \in DOMAIN uploads THEN uploads[filename(r)].content ELSE NoFile

\* created_files, result = process_excel_file(filepath, division_col)
Process(r) ==
    /\ pc[r] = "saved" /\ Running(r)
    /\ df' = [df EXCEPT ![r] = ReadUpload(r)]
    /\ LET out == process_excel_file(ReadUpload(r), DivisionColOf(r))
       IN /\ result' = [result EXCEPT ![r] = out]
          /\ temp' = [temp EXCEPT ![r] =
                        IF out.has_workspace
                        THEN [exists |-> TRUE, files |-> out.workspace]
                        ELSE NoWorkspace]
    /\ pc' = [pc EXCEPT ![r] = "processed"]
    /\ UNCHANGED <<service, req, loop, uploads, outputs, zpos, response>>
    /\ UNCHANGED evars /\ UNCHANGED nvars

\* a cleanup that returns on a failure before it removes the upload
RemoveUpload_KeepOnFailure(r) ==
    /\ pc[r] = "processed" /\ Running(r)
    /\ filename(r) \in DOMAIN uploads
    /\ IF result[r].kind = "ok"
       THEN /\ uploads' = Del(uploads, filename(r))
            /\ pc' = [pc EXCEPT ![r] = "zip_open"]
            /\ UNCHANGED <<loop, response>>
       ELSE /\ UNCHANGED uploads
            /\ Finish(r, Answer(result[r].kind, result[r].columns, <<>>, <<>>))
    /\ UNCHANGED <<service, req, outputs, temp, result, df, zpos>>
    /\ UNCHANGED evars /\ UNCHANGED nvars

\* os.remove(filepath), then the created_files is None branch
RemoveUpload(r) ==
    /\ pc[r] = "processed" /\ Running(r)
    /\ filename(r) \in DOMAIN uploads
    /\ uploads' = Del(uploads, filename(r))
    /\ IF result[r].kind = "ok"
       THEN /\ pc' = [pc EXCEPT ![r] = "zip_open"]
            /\ UNCHANGED <<loop, response>>
       ELSE Finish(r, Answer(result[r].kind, result[r].columns, <<>>, <<>>))
    /\ UNCHANGED <<service, req, outputs, temp, result, df, zpos>>
    /\ UNCHANGED evars /\ UNCHANGED nvars

\* os.remove(filepath) raises FileNotFoundError, which nothing catches
RemoveMissing(r) ==
    /\ pc[r] = "processed" /\ Running(r)
    /\ filename(r) \notin DOMAIN uploads
    /\ Finish(r, Answer("Unhandled", <<>>, <<>>, <<>>))
    /\ UNCHANGED <<service, req, uploads, outputs, temp, result, df, zpos>>
    /\ UNCHANGED evars /\ UNCHANGED nvars

\* zipfile.ZipFile(zip_filepath, 'w') creates or truncates the archive
ZipOpen(r) ==
    /\ pc[r] = "zip_open" /\ Running(r)
    /\ outputs' = Put(outputs, ZipName(r), <<>>)
    /\ zpos' = [zpos EXCEPT ![r] = 0]
    /\ pc' = [pc EXCEPT ![r] = "zip_write"]
    /\ UNCHANGED <<service, req, loop, uploads, temp, result, df, response>>
    /\ UNCHANGED evars /\ UNCHANGED nvars

\* zipf.write(file_info['filepath'], file_info['filename'])
ZipWrite(r) ==
    /\ pc[r] = "zip_write" /\ Running(r)
    /\ zpos[r] < Len(result[r].created_files)
    /\ LET info == result[r].created_files[zpos[r] + 1]
           slot == Member(r, info.filename, temp[r].files[info.filename])
       IN outputs' = Put(outputs, ZipName(r),
                         WriteAt(outputs[ZipName(r)], zpos[r], slot))
    /\ zpos' = [zpos EXCEPT ![r] = zpos[r] + 1]
    /\ UNCHANGED <<service, req, pc, loop, uploads, temp, result, df, response>>
    /\ UNCHANGED evars /\ UNCHANGED nvars

\* leaving the with block closes the archive: the central directory is
\* written after the last member
ZipClose(r) ==
    /\ pc[r] = "zip_write" /\ Running(r)
    /\ zpos[r] = Len(result[r].created_files)
    /\ outputs' = Put(outputs, ZipName(r),
                      WriteAt(outputs[ZipName(r)], zpos[r],
                              Directory(r, Names(result[r].created_files))))
    /\ pc' = [pc EXCEPT ![r] = "zipped"]
    /\ UNCHANGED <<service, req, loop, uploads, temp, result, df, zpos, response>>
    /\ UNCHANGED evars /\ UNCHANGED nvars

\* shutil.rmtree(result), then the success page is rendered
Rmtree(r) ==
    /\ pc[r] = "zipped" /\ Running(r)
    /\ temp' = [temp EXCEPT ![r] = NoWorkspace]
    /\ Finish(r, Answer("success", <<>>, result[r].created_files, ZipName(r)))
    /\ UNCHANGED <<service, req, uploads, outputs, result, df, zpos>>
    /\ UNCHANGED evars /\ UNCHANGED nvars

upload_file(r) ==
    \/ SyncTooLarge(r) \/ SyncReject(r) \/ SyncSave(r)
    \/ AsyncReject(r) \/ AsyncAwaitRead(r) \/ AsyncTooLarge(r) \/ AsyncSave(r)
    \/ Process(r) \/ RemoveUpload(r) \/ RemoveMissing(r)
    \/ ZipOpen(r) \/ ZipWrite(r) \/ ZipClose(r) \/ Rmtree(r)

Next == \E r \in Requests : upload_file(r)
Spec == Init /\ [][Next]_vars

(***************************************************************************)
(* Properties of the engine (SpecEngine, SpecName).                        *)
(***************************************************************************)
EngineRan == e_out.kind # "none"
EngineOk == e_out.kind = "ok"
\* the raw cells of column k of the drawn dataset
ColumnCells(k) == [i \in 1..Len(e_file.rows) |-> e_file.rows[i][k]]

UP1FileName == <<"U","P","-","1","_","D","i","v",".","x","l","s","x">>

\* C1: a division column holding "UP-1", "up-1" and "Up-1 " yields exactly
\* one DivisionFile, named UP-1_Div.xlsx, with row_count 3.
C1_CaseVariantsOneFile ==
    (/\ EngineOk
     /\ ColumnCells(e_out.division_col) = <<Txt(UP1), Txt(up1), Txt(Up1Trail)>>)
    => /\ Len(e_out.created_files) = 1
       /\ e_out.created_files[1].row_count = 3
       /\ e_out.created_files[1].filename = UP1FileName

RECURSIVE SumRowCounts(_)
SumRowCounts(files) ==
    IF files = <<>> THEN 0 ELSE Head(files).row_count + SumRowCounts(Tail(files))

NormalizesToNan(cell) == Lower(Title(Strip(AsStr(cell)))) = NanText
NonNull(cell) == ~cell.na
Counted(cell) == ~cell.na /\ ~NormalizesToNan(cell)

\* no file is made for a "nan" key, and no row of any written file has a
\* division value that is absent or normalizes to "nan"
NanRowsExcluded ==
    /\ \A i \in DOMAIN e_out.created_files :
          Lower(e_out.created_files[i].division) # NanText
    /\ \A n \in DOMAIN e_out.workspace :
          \A j \in DOMAIN e_out.workspace[n] :
             ~NormalizesToNan(e_out.workspace[n][j][e_out.division_col])

\* C2 as stated: rows with an absent or "nan" division value reach no file,
\* and the row counts sum to the number of rows with a non-null value.
C2_SumEqualsNonNull ==
    EngineOk =>
       /\ NanRowsExcluded
       /\ SumRowCounts(e_out.created_files)
             = Len(SelectSeq(ColumnCells(e_out.division_col), NonNull))

\* C2 amended: rows with an absent or "nan" division value reach no file,
\* and the row counts sum to the number of rows whose value is non-null
\* and does not normalize to "nan".
C2_SumEqualsKeptRows ==
    EngineOk =>
       /\ NanRowsExcluded
       /\ SumRowCounts(e_out.created_files)
             = Len(SelectSeq(ColumnCells(e_out.division_col), Counted))

\* a split of a column holding an absent cell, a text "NAN" and a division
C2_Witness ==
    /\ EngineOk
    /\ ColumnCells(e_out.division_col) = <<NaN, Txt(NANUpper), Txt(UP1)>>
    /\ SumRowCounts(e_out.created_files) = 1

\* the dataset has a column auto-detection would select
HasDivisionColumn ==
    \E i \in DOMAIN e_file.columns :
       /\ e_file.columns[i].text
       /\ Strip(Lower(e_file.columns[i].s)) = DivisionText
\* the override names a column of the dataset
OverridePresent ==
    /\ ~e_col.none
    /\ \E i \in DOMAIN e_file.columns :
          e_file.columns[i].text /\ e_file.columns[i].s = e_col.s

\* C7 as stated: MissingData only if neither the override nor
\* auto-detection yields a column, and never when the dataset has a column
\* auto-detection would select.
C7_MissingOnlyIfNeither ==
    /\ e_out.kind = "MissingData" => ~OverridePresent /\ ~HasDivisionColumn
    /\ EngineRan /\ HasDivisionColumn => e_out.kind # "MissingData"

\* C7 amended: MissingData only if the override, when one is given, names
\* no column of the dataset or, when none is given, auto-detection finds no
\* column; a dataset with a column auto-detection would select does not
\* fail with MissingData when no override is given.
C7_MissingOnlyIfChosenAbsent ==
    /\ e_out.kind = "MissingData" =>
          IF e_col.none THEN ~HasDivisionColumn ELSE ~OverridePresent
    /\ EngineRan /\ e_col.none /\ HasDivisionColumn => e_out.kind # "MissingData"

\* an override naming no column fails although a division column exists
C7_Witness ==
    /\ e_out.kind = "MissingData"
    /\ ~e_col.none /\ ~OverridePresent /\ HasDivisionColumn

AllowedChars == LowerSet \cup UpperSet \cup Digits \cup {" ", "-", "_"}
RnDEastFileName ==
    <<"R","D","_","E","a","s","t","_","D","i","v",".","x","l","s","x">>
UpSpacedFileName ==
    <<"U","p","_","-","_","1","_","D","i","v",".","x","l","s","x">>

\* C3: the file name of a key is its allowed characters (alphanumeric,
\* space, hyphen, underscore), cut after the last one that is not
\* whitespace, every space left turned into an underscore, followed by
\* "_Div.xlsx"; "R&D East" gives RD_East_Div.xlsx and "Up - 1" gives
\* Up_-_1_Div.xlsx.
C3_FileNameDerivation ==
    n_name # NoText =>
       LET isAllowed(c) == c \in AllowedChars
           kept == SelectSeq(n_key, isAllowed)
           solid == {i \in DOMAIN kept : kept[i] # " "}
           cut == IF solid = {} THEN 0
                  ELSE CHOOSE i \in solid : \A j \in solid : j <= i
       IN /\ Len(n_name) = cut + 9
          /\ \A i \in 1..cut :
                n_name[i] = IF kept[i] = " " THEN "_" ELSE kept[i]
          /\ SubSeq(n_name, cut + 1, cut + 9) = DivSuffix
          /\ n_key = RnDEast => n_name = RnDEastFileName
          /\ n_key = UpSpaced => n_name = UpSpacedFileName

\* a key whose dropped character leaves a trailing space behind
C3_Witness ==
    /\ n_key = <<"A", " ", "&">>
    /\ n_name = <<"A","_","D","i","v",".","x","l","s","x">>

(***************************************************************************)
(* Properties of the upload handlers (Spec).                               *)
(***************************************************************************)
\* r's handler wrote its upload into the upload directory
Persisted(r) ==
    /\ pc[r] \notin {"start", "awaiting"}
    /\ response[r].kind \notin {"InvalidInput", "RequestEntityTooLarge"}
\* the upload directory holds a file r wrote
OwnedUpload(r) == \E n \in DOMAIN uploads : uploads[n].owner = r
\* the answers a handler renders itself
Rendered == {"success", "MissingData", "ProcessingFailure", "InvalidInput"}
\* the archive file holds one member per DivisionFile of files, in order and
\* under its file name, written by w, then w's central directory
ArchiveHolds(file, w, files) ==
    /\ Len(file) = Len(files) + 1
    /\ \A i \in 1..Len(files) :
          /\ file[i].kind = "member" /\ file[i].owner = w
          /\ file[i].name = files[i].filename
    /\ file[Len(file)].kind = "directory"
    /\ file[Len(file)].owner = w
    /\ file[Len(file)].names = Names(files)
\* some archive holds a slot r wrote
WroteArchive(r) ==
    \E n \in DOMAIN outputs : \E i \in DOMAIN outputs[n] : outputs[n][i].owner = r

\* C4: when a request is answered with the success page, the archive at
\* its path holds exactly one entry per returned DivisionFile, named by its
\* filename, and neither its persisted upload nor its workspace is on disk;
\* the workspace is deleted only after every DivisionFile has been written
\* into the archive.
C4_ArchiveThenCleanup ==
    [][\A r \in Requests :
          /\ (response[r].kind # "success" /\ response'[r].kind = "success") =>
                /\ ZipName(r) \in DOMAIN outputs'
                /\ ArchiveHolds(outputs'[ZipName(r)], r, response'[r].files)
                /\ ~temp'[r].exists
                /\ ~\E n \in DOMAIN uploads' : uploads'[n].owner = r
          /\ (temp[r].exists /\ ~temp'[r].exists) =>
                /\ zpos[r] = Len(result[r].created_files)
                /\ pc[r] = "zipped"]_vars

\* C5: once process_excel_file has returned to a request and its handler
\* has moved on, whatever the engine reported, the upload directory holds
\* no file that request persisted.
C5_UploadRemoved ==
    \A r \in Requests :
       pc[r] \in {"zip_open", "zip_write", "zipped", "done"} => ~OwnedUpload(r)

\* one request answered after a ProcessingFailure and one after MissingData,
\* both having persisted their uploads
C5_Witness ==
    \E r, s \in Requests :
       /\ pc[r] = "done" /\ response[r].kind = "ProcessingFailure"
       /\ df[r] = Garbage
       /\ pc[s] = "done" /\ response[s].kind = "MissingData"
       /\ uploads = <<>>

\* no other request uses r's upload path
Alone(r) ==
    \A s \in Requests \ {r} : filename(s) # filename(r)
NoDivisionLabel(columns) ==
    ~\E i \in DOMAIN columns :
        columns[i].text /\ Strip(Lower(columns[i].s)) = DivisionText
NoOverrideGiven(r) == ~req[r].form.present \/ req[r].form.s = <<>>

\* C6: a dataset with no column named "division" (trimmed, lower-cased),
\* uploaded without an override, ends in MissingData listing the dataset's
\* columns, with no workspace, no DivisionFile and no archive written.
C6_MissingDataListsColumns ==
    \A r \in Requests :
       (/\ pc[r] = "done" /\ Persisted(r) /\ Alone(r)
        /\ req[r].content.kind = "sheet"
        /\ NoDivisionLabel(req[r].content.columns)
        /\ NoOverrideGiven(r))
       => /\ response[r].kind = "MissingData"
          /\ response[r].columns = req[r].content.columns
          /\ response[r].files = <<>>
          /\ ~temp[r].exists
          /\ ~WroteArchive(r)

\* the name has no extension of the accepted set
BadName(name) ==
    \/ name = <<>>
    \/ LastDot(name) = 0
    \/ Lower(SubSeq(name, LastDot(name) + 1, Len(name)))
          \notin {<<"x","l","s","x">>, <<"x","l","s">>}
SixteenMiB == 16 * 1024 * 1024

\* C8: an InvalidInput answer is given before the upload is persisted and
\* before the engine is invoked, and leaves the upload and output
\* directories as they were; a request with no file name or a wrong
\* extension is rejected whatever it holds; the asynchronous service
\* rejects an upload of more than 16 MiB and does not reject one of exactly
\* 16 MiB for its size.
C8_RejectedBeforePersist ==
    /\ [](\A r \in Requests :
            /\ (pc[r] = "done" /\ BadName(req[r].filename)) =>
                  /\ response[r].kind \in {"InvalidInput", "RequestEntityTooLarge"}
                  /\ service = "async" => response[r].kind = "InvalidInput"
            /\ (pc[r] = "done" /\ service = "async"
                   /\ req[r].size > SixteenMiB) => response[r].kind = "InvalidInput"
            /\ (pc[r] = "done" /\ service = "async" /\ ~BadName(req[r].filename)
                   /\ req[r].size = SixteenMiB) => response[r].kind # "InvalidInput"
            /\ response[r].kind = "InvalidInput" =>
                  result[r] = NotRun /\ df[r] = NoFile /\ ~WroteArchive(r))
    /\ [][\A r \in Requests :
            (response[r].kind = "none" /\ response'[r].kind = "InvalidInput") =>
               /\ uploads' = uploads /\ outputs' = outputs
               /\ ~OwnedUpload(r)]_vars

\* the asynchronous service answered an upload of exactly 16 MiB on its
\* content and rejected one of 16 MiB + 1
C8_Witness ==
    /\ service = "async"
    /\ \E r, s \in Requests :
          /\ req[r].size = SixteenMiB /\ response[r].kind = "MissingData"
          /\ req[s].size = SixteenMiB + 1 /\ ~BadName(req[s].filename)
          /\ response[s].kind = "InvalidInput"

\* C9: two requests whose file names sanitize to the same name both end
\* in a rendered response, leave no file at the shared upload path, and the
\* shared archive path holds the complete archive of one of them.
C9_LastWriterWins ==
    \A r, s \in Requests :
       (/\ r # s /\ filename(r) = filename(s)
        /\ Persisted(r) /\ Persisted(s)
        /\ pc[r] = "done" /\ pc[s] = "done")
       => /\ response[r].kind \in Rendered /\ response[s].kind \in Rendered
          /\ filename(r) \notin DOMAIN uploads
          /\ ZipName(r) \in DOMAIN outputs =>
                \E w \in {r, s} :
                   /\ response[w].kind = "success"
                   /\ ArchiveHolds(outputs[ZipName(r)], w, response[w].files)

\* C10: what process_excel_file reads for a request is what that request
\* uploaded.
C10_ReadsOwnUpload ==
    \A r \in Requests : result[r].kind # "none" => df[r] = req[r].content

\* C11: no request ends in an error that escapes the handler: every finished
\* request carries an answer the service produced, never an unhandled failure.
C11_NoUnhandledFailure ==
    \A r \in Requests :
       pc[r] = "done" => response[r].kind # "Unhandled"

\* the division_col field holds nothing but whitespace, or is absent
BlankField(form) == ~form.present \/ Strip(form.s) = <<>>
\* what a handler reports of an engine outcome
OutcomeOf(out) == <<out.kind, out.created_files>>

\* C12: on the same upload and the same division_col field both handlers pass
\* the same column choice to process_excel_file and so reach the same outcome,
\* and a field that is empty, absent or whitespace-only makes either of them
\* auto-detect the column.
C12_SameColumnChoice ==
    \A r \in Requests :
       result[r].kind # "none" =>
          LET form == req[r].form
          IN /\ SyncDivisionCol(form) = AsyncDivisionCol(form)
             /\ OutcomeOf(process_excel_file(df[r], SyncDivisionCol(form)))
                  = OutcomeOf(process_excel_file(df[r], AsyncDivisionCol(form)))
             /\ BlankField(form) => DivisionColOf(r) = None

\* the rows of the drawn dataset whose normalized division value is division
PartitionOf(division) ==
    division_data(e_file.rows, e_out.division_col, division)

\* C13: the DivisionFiles of one call correspond 1:1 to its partitions: no two
\* of them share a file name, the workspace holds exactly one file per
\* DivisionFile, and the file under each name holds the rows of that
\* DivisionFile's partition, as many as its row_count.
C13_OneFilePerPartition ==
    EngineOk =>
       LET files == e_out.created_files
       IN /\ \A i, j \in DOMAIN files :
                i # j => files[i].filename # files[j].filename
          /\ DOMAIN e_out.workspace = Range(Names(files))
          /\ Cardinality(DOMAIN e_out.workspace) = Len(files)
          /\ \A i \in DOMAIN files :
                /\ files[i].filename \in DOMAIN e_out.workspace
                /\ e_out.workspace[files[i].filename]
                      = PartitionOf(files[i].division)
                /\ Len(e_out.workspace[files[i].filename]) = files[i].row_count

=============================================================================
